---- MODULE Spec2Model ----
(***************************************************************************)
(* Model of sss_reconstruct.js: exact rationals over BigInt, the lazy      *)
(* k-combinations generator, Lagrange interpolation and the best-fit       *)
(* search of main().                                                       *)
(*                                                                         *)
(* Conventions.  A Fraction object is the record [n |-> .., d |-> ..].     *)
(* A throw out of a Fraction operation is the value Thrown, which is no    *)
(* Fraction (its d is 0, and no constructed Fraction has d = 0).  Arrays   *)
(* are sequences: the JavaScript element a[i] is a[i + 1] here.  The       *)
(* generator's idx array keeps the code's 0-based index VALUES.            *)
(***************************************************************************)
EXTENDS Integers, Sequences, FiniteSets

VARIABLES
    shares,    \* main: the parsed shares, sorted by x (parseInput)
    k,         \* main: keys.k
    origin,    \* main: how the input was generated (read by no action)
    pc,        \* main: position in main()
    idx,       \* main: the generator's idx array (<<>>: generator not started)
    best,      \* main: the best candidate so far
    good,      \* main: output partition, shares that fit
    bad,       \* main: output partition, shares that do not fit
    fa,        \* Fraction harness: the live Fraction object
    flast,     \* Fraction harness: the last operation, its arguments, its outcome
    cn,        \* generator harness: arr.length
    ck,        \* generator harness: k
    cidx,      \* generator harness: idx
    cout,      \* generator harness: the tuples yielded so far, in order
    cpc        \* generator harness: position in combinations()

mainVars == <<shares, k, origin, pc, idx, best, good, bad>>
fracVars == <<fa, flast>>
combVars == <<cn, ck, cidx, cout, cpc>>
vars == <<shares, k, origin, pc, idx, best, good, bad, fa, flast, cn, ck, cidx, cout, cpc>>

(***************************************************************************)
(* Bounds of the model.                                                    *)
(***************************************************************************)
MaxN == 3          \* at most this many shares
MaxX == 3          \* share abscissae are 1..MaxX
MaxY == 1          \* share ordinates are 0..MaxY
PolyN == 4         \* generated share sets have at most this many shares
PolyK == 2         \* generated share sets come from polynomials of at most this many coefficients
CoefMax == 2       \* polynomials of the claims have coefficients in -CoefMax..CoefMax
AlteredYMax == 27  \* the altered ordinate of the 2x^2-3x+5 example ranges over 0..AlteredYMax
FracArg == 6       \* Fraction harness: constructor arguments are in -FracArg..FracArg
FracOp == 3        \* Fraction harness: the other operand is built from -FracOp..FracOp
FracCap == 8       \* Fraction harness: results are kept while |n|, d <= FracCap
CombN == 5         \* generator harness: arr.length is in 0..CombN

----------------------------------------------------------------------------
(***************************************************************************)
(* BigInt gcd and Fraction.                                                *)
(***************************************************************************)
bigAbs(a) == IF a >= 0 THEN a ELSE -a

RECURSIVE gcdLoop(_, _)
gcdLoop(a, b) == IF b # 0 THEN gcdLoop(b, a % b) ELSE a

bigGcd(a, b) == gcdLoop(bigAbs(a), bigAbs(b))

Thrown == [n |-> 0, d |-> 0]

\* variant: without if (d < 0) { n = -n; d = -d; }
FractionNoSign(n, d) ==
    IF d = 0 THEN Thrown
    ELSE LET g == bigGcd(n, d)
         IN  [n |-> n \div g, d |-> d \div g]

\* BigInt division truncates; both divisions are exact (g > 0 divides n1 and
\* d1), where truncation and \div agree.
Fraction(n, d) ==
    IF d = 0 THEN Thrown
    ELSE LET n1 == IF d < 0 THEN -n ELSE n
             d1 == IF d < 0 THEN -d ELSE d
             g  == bigGcd(n1, d1)
         IN  [n |-> n1 \div g, d |-> d1 \div g]

fromBigInt(x) == Fraction(x, 1)

add(t, o) == Fraction(t.n * o.d + o.n * t.d, t.d * o.d)
sub(t, o) == Fraction(t.n * o.d - o.n * t.d, t.d * o.d)
mul(t, o) == Fraction(t.n * o.n, t.d * o.d)
div(t, o) == IF o.n = 0 THEN Thrown ELSE Fraction(t.n * o.d, t.d * o.n)
isInteger(t) == t.d = 1

----------------------------------------------------------------------------
(***************************************************************************)
(* Lagrange interpolation.  points is a sequence of shares; the inner      *)
(* loops run j = 0..k-1 (here 1..k) and skip j = i.                        *)
(***************************************************************************)
\* variant: the numerator loop without if (i === j) continue
RECURSIVE numLoopNoSkip(_, _, _, _)
numLoopNoSkip(points, i, j, xq) ==
    IF j = 0 THEN Fraction(1, 1)
    ELSE mul(numLoopNoSkip(points, i, j - 1, xq), Fraction(xq - points[j].x, 1))

RECURSIVE numLoop(_, _, _, _)
numLoop(points, i, j, xq) ==
    IF j = 0 THEN Fraction(1, 1)
    ELSE LET prev == numLoop(points, i, j - 1, xq)
         IN  IF j = i THEN prev
             ELSE mul(prev, Fraction(xq - points[j].x, 1))

\* variant: xj - xi for xi - xj
RECURSIVE denLoopSwapped(_, _, _)
denLoopSwapped(points, i, j) ==
    IF j = 0 THEN Fraction(1, 1)
    ELSE LET prev == denLoopSwapped(points, i, j - 1)
         IN  IF j = i THEN prev
             ELSE mul(prev, Fraction(points[j].x - points[i].x, 1))

RECURSIVE denLoop(_, _, _)
denLoop(points, i, j) ==
    IF j = 0 THEN Fraction(1, 1)
    ELSE LET prev == denLoop(points, i, j - 1)
         IN  IF j = i THEN prev
             ELSE mul(prev, Fraction(points[i].x - points[j].x, 1))

\* acc after the outer loop has run i = 1..upto; Thrown once num.div(den) threw.
RECURSIVE evalLoop(_, _, _)
evalLoop(points, xq, upto) ==
    IF upto = 0 THEN Fraction(0, 1)
    ELSE LET acc == evalLoop(points, xq, upto - 1)
             Li  == div(numLoop(points, upto, Len(points), xq),
                        denLoop(points, upto, Len(points)))
         IN  IF acc = Thrown \/ Li = Thrown THEN Thrown
             ELSE add(acc, mul(fromBigInt(points[upto].y), Li))

lagrangeEval(points, xq) == evalLoop(points, xq, Len(points))

\* num = num.mul(new Fraction(-xj, 1n)), for j # i
RECURSIVE numLoopZero(_, _, _)
numLoopZero(points, i, j) ==
    IF j = 0 THEN Fraction(1, 1)
    ELSE LET prev == numLoopZero(points, i, j - 1)
         IN  IF j = i THEN prev
             ELSE mul(prev, Fraction(-points[j].x, 1))

RECURSIVE zeroLoop(_, _)
zeroLoop(points, upto) ==
    IF upto = 0 THEN Fraction(0, 1)
    ELSE LET acc == zeroLoop(points, upto - 1)
             Li0 == div(numLoopZero(points, upto, Len(points)),
                        denLoop(points, upto, Len(points)))
         IN  IF acc = Thrown \/ Li0 = Thrown THEN Thrown
             ELSE add(acc, mul(fromBigInt(points[upto].y), Li0))

lagrangeAtZero(points) == zeroLoop(points, Len(points))

----------------------------------------------------------------------------
(***************************************************************************)
(* The combinations generator.  Exhausted is the generator's return.       *)
(***************************************************************************)
Exhausted == <<-1>>

\* Array.from({length: k}, (_, i) => i), or the early return for k > n
combStart(n, kk) == IF kk > n THEN Exhausted ELSE [i \in 1..kk |-> i - 1]

\* while (p >= 0 && idx[p] === p + n - k) p--;      (p is 0-based)
RECURSIVE pivot(_, _, _, _)
pivot(ix, p, n, kk) ==
    IF p >= 0 /\ ix[p + 1] = p + n - kk THEN pivot(ix, p - 1, n, kk) ELSE p

\* variant: idx[p]++ without the loop that resets idx[p+1..]
combNextNoReset(ix, n, kk) ==
    LET p == pivot(ix, kk - 1, n, kk)
    IN  IF p < 0 THEN Exhausted
        ELSE [j \in 1..kk |-> IF j = p + 1 THEN ix[j] + 1 ELSE ix[j]]

\* idx[p]++; for (j = p+1; j < k; ++j) idx[j] = idx[j-1] + 1;
combNext(ix, n, kk) ==
    LET p == pivot(ix, kk - 1, n, kk)
    IN  IF p < 0 THEN Exhausted
        ELSE [j \in 1..kk |-> IF j - 1 < p THEN ix[j]
                              ELSE ix[p + 1] + 1 + (j - 1 - p)]

\* idx.map(i => arr[i])
yielded(arr, ix) == [j \in 1..Len(ix) |-> arr[ix[j] + 1]]

----------------------------------------------------------------------------
(***************************************************************************)
(* main(): the consensus search.                                           *)
(***************************************************************************)
NoBest == [fitCount |-> -1, subset |-> <<>>, secretFrac |-> Thrown, fits |-> <<>>]

\* const xs = subset.map(s => s.x.toString()); new Set(xs).size !== xs.length
hasDuplicateX(subset) ==
    Cardinality({subset[i].x : i \in 1..Len(subset)}) # Len(subset)

\* variant: neither `continue` is taken
skipNever(subset) == FALSE

\* the two `continue`s: duplicate x, or lagrangeAtZero threw
skipSubset(subset) ==
    hasDuplicateX(subset) \/ lagrangeAtZero(subset) = Thrown

\* const val = lagrangeEval(subset, p.x), for every share p
valsOf(subset) == [i \in 1..Len(shares) |-> lagrangeEval(subset, shares[i].x)]

\* variant: without val.isInteger()
fitsShareAnyRational(val, p) == val.n = p.y

\* val.isInteger() && val.n === p.y
fitsShare(val, p) == isInteger(val) /\ val.n = p.y

fitsOf(vals) == [i \in 1..Len(shares) |-> fitsShare(vals[i], shares[i])]

countTrue(fits) == Cardinality({i \in 1..Len(fits) : fits[i]})

\* a throw out of lagrangeEval is not caught inside the loop
evalThrows(vals) == \E i \in 1..Len(vals) : vals[i] = Thrown

\* variant: >= for >
isBetterOrEqual(fitCount, b) == fitCount >= b.fitCount

\* if (fitCount > best.fitCount)
isBetter(fitCount, b) == fitCount > b.fitCount

\* variant: leave the loop as soon as k shares fit
perfectAtThreshold(fitCount) == fitCount >= k

\* if (fitCount === shares.length) break;
perfectFit(fitCount) == fitCount = Len(shares)

\* variant: k >= shares.length for k > shares.length
thresholdOffByOne(kk, n) == kk < 2 \/ kk >= n

\* the two process.exit(1) of the validation
invalidThreshold(kk, n) == kk < 2 \/ kk > n

\* the for-of asks the generator for its next value
Advance ==
    LET nxt == combNext(idx, Len(shares), k)
    IN  IF nxt = Exhausted
        THEN pc' = "conclude" /\ idx' = idx
        ELSE pc' = "enumerate" /\ idx' = nxt

Validate ==
    /\ pc = "validate"
    /\ IF invalidThreshold(k, Len(shares))
       THEN pc' = "InvalidThreshold" /\ UNCHANGED <<idx, best>>
       ELSE LET first == combStart(Len(shares), k)
            IN  /\ best' = NoBest
                /\ IF first = Exhausted
                   THEN pc' = "conclude" /\ idx' = idx
                   ELSE pc' = "enumerate" /\ idx' = first
    /\ UNCHANGED <<shares, k, origin, good, bad>>

\* One iteration of the for-of loop, on the subset the generator yielded.
TrySubset ==
    /\ pc = "enumerate"
    /\ LET subset == yielded(shares, idx)
           vals == valsOf(subset)
           fits == fitsOf(vals)
           fitCount == countTrue(fits)
       IN  IF skipSubset(subset)
           THEN best' = best /\ Advance
           ELSE IF evalThrows(vals)
           THEN pc' = "Error" /\ UNCHANGED <<idx, best>>
           ELSE IF isBetter(fitCount, best)
           THEN /\ best' = [fitCount |-> fitCount, subset |-> subset,
                            secretFrac |-> lagrangeAtZero(subset), fits |-> fits]
                /\ IF perfectFit(fitCount)
                   THEN pc' = "conclude" /\ idx' = idx
                   ELSE Advance
           ELSE best' = best /\ Advance
    /\ UNCHANGED <<shares, k, origin, good, bad>>

\* if (!best.subset) exit; else the good/bad partition
Conclude ==
    /\ pc = "conclude"
    /\ IF best.subset = <<>>
       THEN pc' = "ReconstructionFailed" /\ UNCHANGED <<good, bad>>
       ELSE /\ pc' = "done"
            /\ good' = {i \in 1..Len(shares) : best.fits[i]}
            /\ bad' = {i \in 1..Len(shares) : ~best.fits[i]}
    /\ UNCHANGED <<shares, k, origin, idx, best>>

isSortedByX(xs) == \A i \in 1..(Len(xs) - 1) : xs[i] <= xs[i + 1]

mkShares(xs, ys) == [i \in 1..Len(xs) |-> [x |-> xs[i], y |-> ys[i], label |-> i]]

\* result += coefficients[i] * Math.pow(x, i), exact on the integers used here
RECURSIVE evaluatePolynomial(_, _)
evaluatePolynomial(coefficients, x) ==
    IF coefficients = <<>> THEN 0
    ELSE coefficients[1] + x * evaluatePolynomial(Tail(coefficients), x)

NoOrigin == [poly |-> <<>>, altered |-> {}]

\* Any shares parseInput can return: sorted by x (repeats allowed: the keys
\* "1" and "01" are both x = 1), y >= 0, labels distinct; any k >= 0.
AnyInputs ==
    {[shares |-> mkShares(xs, ys), k |-> kk, origin |-> NoOrigin] :
        <<xs, ys, kk>> \in UNION {
            {xs \in [1..n -> 1..MaxX] : isSortedByX(xs)}
                \X [1..n -> 0..MaxY] \X (0..(n + 1)) : n \in 0..MaxN}}

\* Shares generated as generateShares does, at x = 1..n from a polynomial with
\* kk integer coefficients, of which at most one has its y altered afterwards
\* (and none when n = kk).  origin records the polynomial and the altered
\* positions; the program never reads it.
Alterations(n, kk) ==
    {<<>>} \cup (IF n > kk THEN (1..n) \X (0..MaxY) ELSE {})

alter(ys, alt) ==
    IF alt = <<>> THEN ys ELSE [ys EXCEPT ![alt[1]] = alt[2]]

minOf(a, b) == IF a <= b THEN a ELSE b

polyInput(n, kk, coefs, alt) ==
    [shares |-> mkShares([i \in 1..n |-> i],
                         alter([i \in 1..n |-> evaluatePolynomial(coefs, i)], alt)),
     k |-> kk,
     origin |-> [poly |-> coefs, altered |-> IF alt = <<>> THEN {} ELSE {alt[1]}]]

PolyInputs ==
    {polyInput(c[1], c[2], c[3], c[4]) :
        c \in {c \in UNION {UNION {{n} \X {kk} \X [1..kk -> -CoefMax..CoefMax]
                                      \X Alterations(n, kk) :
                                   kk \in 2..minOf(n, PolyK)} : n \in 2..PolyN} :
                 /\ \A i \in 1..c[1] : evaluatePolynomial(c[3], i) >= 0
                 /\ c[4] # <<>> => c[4][2] # evaluatePolynomial(c[3], c[4][1])}}

\* f(x) = 2x^2 - 3x + 5 at x = 1..4, the share at x = 4 carrying y
exampleShares(y) == mkShares(<<1, 2, 3, 4>>, <<4, 7, 14, y>>)

ExampleInputs ==
    {[shares |-> exampleShares(y), k |-> 3,
      origin |-> [poly |-> <<5, -3, 2>>, altered |-> IF y = 25 THEN {} ELSE {4}]] :
        y \in 0..AlteredYMax}

Inputs == AnyInputs \cup PolyInputs \cup ExampleInputs

NoOp == [op |-> "none", n |-> 0, d |-> 0, o |-> Thrown, threw |-> FALSE]
fracIdle == fa = Fraction(0, 1) /\ flast = NoOp
combIdle == cn = 0 /\ ck = 0 /\ cidx = <<>> /\ cout = <<>> /\ cpc = "idle"
mainIdle == /\ shares = <<>> /\ k = 0 /\ origin = NoOrigin /\ pc = "idle" /\ idx = <<>>
            /\ best = NoBest /\ good = {} /\ bad = {}

Init ==
    /\ \E in \in Inputs : shares = in.shares /\ k = in.k /\ origin = in.origin
    /\ pc = "validate"
    /\ idx = <<>>
    /\ best = NoBest
    /\ good = {}
    /\ bad = {}
    /\ fracIdle
    /\ combIdle

Next ==
    \/ Validate /\ UNCHANGED <<fracVars, combVars>>
    \/ TrySubset /\ UNCHANGED <<fracVars, combVars>>
    \/ Conclude /\ UNCHANGED <<fracVars, combVars>>

Spec == Init /\ [][Next]_vars

----------------------------------------------------------------------------
(***************************************************************************)
(* Harness for the Fraction class: one live object fa, replaced by the     *)
(* result of each constructor call or operation that returns; a call that  *)
(* throws leaves it alone.  flast records the call: the constructor's      *)
(* arguments (n, d), or the other operand o, and whether it threw.         *)
(***************************************************************************)
withinCap(f) == bigAbs(f.n) <= FracCap /\ f.d <= FracCap

fracResult(r, call) ==
    IF r = Thrown
    THEN fa' = fa /\ flast' = [call EXCEPT !.threw = TRUE]
    ELSE withinCap(r) /\ fa' = r /\ flast' = call

FracNew ==
    \E n \in -FracArg..FracArg, d \in -FracArg..FracArg :
        fracResult(Fraction(n, d), [NoOp EXCEPT !.op = "new", !.n = n, !.d = d])

Operands ==
    {Fraction(n, d) : n \in -FracOp..FracOp, d \in (-FracOp..FracOp) \ {0}}

FracAdd == \E o \in Operands : fracResult(add(fa, o), [NoOp EXCEPT !.op = "add", !.o = o])
FracSub == \E o \in Operands : fracResult(sub(fa, o), [NoOp EXCEPT !.op = "sub", !.o = o])
FracMul == \E o \in Operands : fracResult(mul(fa, o), [NoOp EXCEPT !.op = "mul", !.o = o])
FracDiv == \E o \in Operands : fracResult(div(fa, o), [NoOp EXCEPT !.op = "div", !.o = o])

InitFraction == mainIdle /\ combIdle /\ fracIdle

NextFraction ==
    \/ FracNew /\ UNCHANGED <<mainVars, combVars>>
    \/ FracAdd /\ UNCHANGED <<mainVars, combVars>>
    \/ FracSub /\ UNCHANGED <<mainVars, combVars>>
    \/ FracMul /\ UNCHANGED <<mainVars, combVars>>
    \/ FracDiv /\ UNCHANGED <<mainVars, combVars>>

SpecFraction == InitFraction /\ [][NextFraction]_vars

----------------------------------------------------------------------------
(***************************************************************************)
(* Harness for the generator: combinations(arr, k) over arr = [0..n-1],    *)
(* consumed to the end; cout collects what it yields.                      *)
(***************************************************************************)
items(n) == [i \in 1..n |-> i - 1]

CombBegin ==
    /\ cpc = "start"
    /\ LET first == combStart(cn, ck)
       IN  IF first = Exhausted
           THEN cpc' = "returned" /\ cidx' = cidx
           ELSE cpc' = "yield" /\ cidx' = first
    /\ UNCHANGED <<cn, ck, cout>>

CombYield ==
    /\ cpc = "yield"
    /\ cout' = Append(cout, yielded(items(cn), cidx))
    /\ cpc' = "resume"
    /\ UNCHANGED <<cn, ck, cidx>>

CombResume ==
    /\ cpc = "resume"
    /\ LET nxt == combNext(cidx, cn, ck)
       IN  IF nxt = Exhausted
           THEN cpc' = "returned" /\ cidx' = cidx
           ELSE cpc' = "yield" /\ cidx' = nxt
    /\ UNCHANGED <<cn, ck, cout>>

InitComb ==
    /\ mainIdle /\ fracIdle
    /\ cn \in 0..CombN
    /\ ck \in 1..(CombN + 1)
    /\ cidx = <<>> /\ cout = <<>> /\ cpc = "start"

NextComb ==
    \/ CombBegin /\ UNCHANGED <<mainVars, fracVars>>
    \/ CombYield /\ UNCHANGED <<mainVars, fracVars>>
    \/ CombResume /\ UNCHANGED <<mainVars, fracVars>>

SpecComb == InitComb /\ [][NextComb]_vars

----------------------------------------------------------------------------
(***************************************************************************)
(* Vocabulary of the properties.                                           *)
(***************************************************************************)
NumShares == Len(shares)

Failed == pc \in {"InvalidThreshold", "ReconstructionFailed", "Error"}

Finished == pc \in {"conclude", "done"}

FromPolynomial == origin.poly # <<>>

AsInteger(v) == [n |-> v, d |-> 1]

DistinctX == \A i, j \in 1..NumShares : i # j => shares[i].x # shares[j].x

\* the strictly increasing kk-tuples of indices 0..n-1
IndexTuples(n, kk) ==
    {t \in [1..kk -> 0..(n - 1)] : \A i \in 1..(kk - 1) : t[i] < t[i + 1]}

\* s comes before t in lexicographic order (same length)
LexLess(s, t) ==
    \E i \in 1..Len(s) : s[i] < t[i] /\ \A j \in 1..(i - 1) : s[j] = t[j]

RECURSIVE Binomial(_, _)
Binomial(n, kk) ==
    IF kk = 0 THEN 1
    ELSE IF kk > n THEN 0
    ELSE Binomial(n - 1, kk - 1) + Binomial(n - 1, kk)

\* The shares at positions T (pairwise distinct x) lie on one polynomial of degree
\* at most |T| - 2: their divided difference of order |T| - 1,
\* SUM_i y_i / W(i) with W(i) = PROD_(j in T, j # i) (x_i - x_j), is zero.
\* Cleared of denominators: SUM_i y_i * PROD_(m in T, m # i) W(m) = 0.
\* Each loop runs over the positions upto, upto-1, .., 1 that are in T.
RECURSIVE DiffProd(_, _, _)
DiffProd(T, m, upto) ==
    IF upto = 0 THEN 1
    ELSE (IF upto \in T /\ upto # m THEN shares[m].x - shares[upto].x ELSE 1)
             * DiffProd(T, m, upto - 1)

RECURSIVE OthersProd(_, _, _)
OthersProd(T, i, upto) ==
    IF upto = 0 THEN 1
    ELSE (IF upto \in T /\ upto # i THEN DiffProd(T, upto, NumShares) ELSE 1)
             * OthersProd(T, i, upto - 1)

RECURSIVE ClearedSum(_, _)
ClearedSum(T, upto) ==
    IF upto = 0 THEN 0
    ELSE (IF upto \in T THEN shares[upto].y * OthersProd(T, upto, NumShares) ELSE 0)
             + ClearedSum(T, upto - 1)

OnLowerDegreePolynomial(T) == ClearedSum(T, NumShares) = 0

\* no k+1 of the shares lie on one polynomial of degree at most k-1
Independent ==
    /\ DistinctX
    /\ \A T \in SUBSET (1..NumShares) :
           Cardinality(T) = k + 1 => ~OnLowerDegreePolynomial(T)

fitCountOf(t) == countTrue(fitsOf(valsOf(yielded(shares, t))))

NonDegenerate == {t \in IndexTuples(NumShares, k) : ~hasDuplicateX(yielded(shares, t))}

\* every non-degenerate tuple with its fit count
ScoredTuples == {<<t, fitCountOf(t)>> : t \in NonDegenerate}

\* w is the first pair, in lexicographic order of the tuples, among those of
\* maximal fit count
IsFirstMax(w, scored) ==
    \A u \in scored :
        \/ u[2] < w[2]
        \/ u[2] = w[2] /\ (u[1] = w[1] \/ LexLess(w[1], u[1]))

----------------------------------------------------------------------------
(***************************************************************************)
(* C1 as stated: whenever at least k shares are unmodified evaluations of  *)
(* f and the others (at most n-k) are altered, reconstruct returns f(0)    *)
(* and its bad shares are exactly the altered ones.                        *)
(***************************************************************************)
C1_AnyAlteredUpToNMinusK ==
    (FromPolynomial /\ Cardinality(origin.altered) <= NumShares - k)
        => /\ ~Failed
           /\ Finished => best.secretFrac = AsInteger(origin.poly[1])
           /\ pc = "done" => bad = origin.altered

(***************************************************************************)
(* C1 amended: the same conclusion when at most floor((n-k)/2) shares are  *)
(* altered (then the polynomial f alone reaches the maximal fit count).    *)
(***************************************************************************)
C1_AlteredUpToHalf ==
    (FromPolynomial /\ 2 * Cardinality(origin.altered) <= NumShares - k)
        => /\ ~Failed
           /\ Finished => best.secretFrac = AsInteger(origin.poly[1])
           /\ pc = "done" => bad = origin.altered

C1_Witness ==
    /\ pc = "done" /\ FromPolynomial
    /\ origin.altered # {}
    /\ 2 * Cardinality(origin.altered) <= NumShares - k
    /\ bad = origin.altered

(***************************************************************************)
(* C2: unmodified shares of a polynomial with k integer coefficients at    *)
(* x = 1..n, 2 <= k <= n: the secret is the constant term, fitCount = n    *)
(* and every share is good.                                                *)
(***************************************************************************)
C2_ExactOnUnmodified ==
    (/\ FromPolynomial /\ origin.altered = {}
     /\ \A i \in 1..NumShares : shares[i].x = i
     /\ 2 <= k /\ k <= NumShares)
        => /\ ~Failed
           /\ Finished => /\ best.secretFrac = AsInteger(origin.poly[1])
                          /\ best.fitCount = NumShares
                          /\ \A i \in 1..NumShares : best.fits[i]
           /\ pc = "done" => good = 1..NumShares /\ bad = {}

C2_Witness ==
    /\ pc = "done" /\ FromPolynomial /\ origin.altered = {}
    /\ NumShares = 4 /\ k = 2
    /\ origin.poly[2] # 0
    /\ best.fitCount = 4

(***************************************************************************)
(* C3: shares (1,4),(2,7),(3,14),(4,y) with y # 25 and k = 3: fitCount is  *)
(* 3, exactly the share at x = 4 is bad, and the secret is 5.              *)
(***************************************************************************)
IsAlteredExample ==
    /\ k = 3
    /\ \E y \in (0..AlteredYMax) \ {25} : shares = exampleShares(y)

C3_AlteredExample ==
    IsAlteredExample
        => /\ ~Failed
           /\ Finished => best.fitCount = 3 /\ best.secretFrac = AsInteger(5)
           /\ pc = "done" => /\ bad = {4}
                             /\ \A i \in bad : shares[i].x = 4

C3_Witness ==
    /\ IsAlteredExample /\ pc = "done"
    /\ shares[4].y = 26
    /\ bad = {4} /\ best.fitCount = 3 /\ best.secretFrac = AsInteger(5)

(***************************************************************************)
(* C4 as stated: when the shares hold no consistent group beyond what k    *)
(* points always give (x pairwise distinct, no k+1 shares on one           *)
(* polynomial of degree at most k-1, as with independently chosen y),      *)
(* reconstruct never returns a result with fitCount >= k.                  *)
(***************************************************************************)
C4_UnsupportedNeverReturned ==
    (pc = "done" /\ Independent) => best.fitCount < k

(***************************************************************************)
(* C4 amended: for such shares (and 2 <= k <= n) reconstruct does not      *)
(* fail; it returns the interpolation of the first k shares with fitCount  *)
(* exactly k, and marks the other n-k shares bad.                          *)
(***************************************************************************)
C4_UnsupportedReturnedWithFitK ==
    ((Failed \/ Finished) /\ 2 <= k /\ k <= NumShares /\ Independent)
        => /\ ~Failed
           /\ Finished => /\ best.fitCount = k
                          /\ best.subset = SubSeq(shares, 1, k)
           /\ pc = "done" => good = 1..k /\ bad = (k + 1)..NumShares

C4_Witness ==
    /\ pc = "done" /\ NumShares = MaxN /\ k = 2
    /\ Independent
    /\ best.fitCount = k
    /\ bad # {}

(***************************************************************************)
(* C5: InvalidThreshold is reached exactly when k < 2 or k exceeds the     *)
(* number of shares, and then nothing has been enumerated and no secret    *)
(* or partition exists.                                                    *)
(***************************************************************************)
C5_ThresholdValidation ==
    /\ pc = "InvalidThreshold"
          => /\ k < 2 \/ k > NumShares
             /\ idx = <<>> /\ best = NoBest /\ good = {} /\ bad = {}
    /\ (k < 2 \/ k > NumShares) => pc \in {"validate", "InvalidThreshold"}
    /\ (2 <= k /\ k <= NumShares) => pc # "InvalidThreshold"

C5_Witness ==
    /\ pc = "InvalidThreshold"
    /\ k = NumShares + 1 /\ k >= 3
    /\ idx = <<>> /\ best = NoBest

(***************************************************************************)
(* C6: a subset with a repeated x is never the best candidate, and meeting *)
(* one neither aborts the search nor changes the best candidate: the       *)
(* search goes on with the next tuple, or concludes if there is none.      *)
(***************************************************************************)
AtDegenerate == pc = "enumerate" /\ hasDuplicateX(yielded(shares, idx))

C6_DegenerateSkipped ==
    /\ [](~hasDuplicateX(best.subset) /\ pc # "Error")
    /\ [][AtDegenerate =>
            /\ best' = best
            /\ \/ /\ pc' = "enumerate"
                  /\ idx' \in IndexTuples(NumShares, k)
                  /\ LexLess(idx, idx')
                  /\ \A t \in IndexTuples(NumShares, k) :
                         ~(LexLess(idx, t) /\ LexLess(t, idx'))
               \/ /\ pc' = "conclude"
                  /\ \A t \in IndexTuples(NumShares, k) : ~LexLess(idx, t)]_vars

C6_Witness ==
    /\ pc = "done"
    /\ hasDuplicateX(SubSeq(shares, 1, k))
    /\ ~hasDuplicateX(best.subset)
    /\ NumShares = MaxN

(***************************************************************************)
(* C7: the reported subset is the first, in lexicographic index order,     *)
(* among the non-degenerate subsets of maximal fit count over ALL subsets, *)
(* whether the search ended by exhaustion or by the early exit.            *)
(***************************************************************************)
C7_FirstMaximalReported ==
    pc = "done" =>
        LET scored == ScoredTuples
        IN  \E w \in scored :
                /\ IsFirstMax(w, scored)
                /\ best.subset = yielded(shares, w[1])
                /\ best.fitCount = w[2]

\* a later subset ties with the reported one
C7_Witness ==
    /\ pc = "done"
    /\ \E t \in NonDegenerate :
           /\ yielded(shares, t) # best.subset
           /\ fitCountOf(t) = best.fitCount
           /\ lagrangeAtZero(yielded(shares, t)) # best.secretFrac

(***************************************************************************)
(* C8: for 1 <= k <= n the generator yields every strictly increasing      *)
(* k-tuple of indices once, in lexicographic order, C(n,k) tuples in all;  *)
(* for k > n it yields nothing.                                            *)
(***************************************************************************)
C8_CombinationsExact ==
    /\ \A i \in 1..Len(cout) : cout[i] \in IndexTuples(cn, ck)
    /\ \A i \in 1..(Len(cout) - 1) : LexLess(cout[i], cout[i + 1])
    /\ cpc = "returned" =>
          /\ Len(cout) = Binomial(cn, ck)
          /\ \A t \in IndexTuples(cn, ck) : \E i \in 1..Len(cout) : cout[i] = t
          /\ ck > cn => cout = <<>>

C8_Witness ==
    /\ cpc = "returned" /\ cn = CombN /\ ck = 3
    /\ Len(cout) = Binomial(CombN, 3)
    /\ Len(cout) >= 10

(***************************************************************************)
(* C9: every Fraction object is in lowest terms with a positive            *)
(* denominator and has the value asked for; the constructor throws exactly *)
(* for denominator 0, div exactly for a divisor with numerator 0, and the  *)
(* other operations never throw.                                           *)
(***************************************************************************)
Divides(g, a) == \E q \in -bigAbs(a)..bigAbs(a) : a = g * q

Canonical(f) ==
    /\ f.d > 0
    /\ \A g \in 2..f.d : ~(Divides(g, f.n) /\ Divides(g, f.d))

C9_FractionCanonical ==
    /\ Canonical(fa)
    /\ flast.op = "new" =>
          /\ flast.threw <=> flast.d = 0
          /\ ~flast.threw => fa.n * flast.d = flast.n * fa.d
          /\ (flast.n = 6 /\ flast.d = -4) => fa = [n |-> -3, d |-> 2]
    /\ flast.op = "div" => (flast.threw <=> flast.o.n = 0)
    /\ flast.op \in {"add", "sub", "mul"} => ~flast.threw

C9_Witness ==
    /\ flast.op = "new" /\ flast.n = 6 /\ flast.d = -4
    /\ fa = [n |-> -3, d |-> 2]

(***************************************************************************)
(* C10: whenever a best candidate exists, the members of its subset are    *)
(* marked as fitting, its fitCount is the number of fitting shares and is  *)
(* at least k; ReconstructionFailed is reached only when every size-k      *)
(* subset holds two shares with the same x.                                *)
(***************************************************************************)
C10_WinnerFitsItself ==
    /\ best.subset # <<>> =>
          /\ \A j \in 1..Len(best.subset) : best.fits[best.subset[j].label]
          /\ best.fitCount = countTrue(best.fits)
          /\ best.fitCount >= k
    /\ pc = "done" => best.subset # <<>> /\ good = {i \in 1..NumShares : best.fits[i]}
    /\ pc = "ReconstructionFailed" =>
          \A t \in IndexTuples(NumShares, k) : hasDuplicateX(yielded(shares, t))

C10_Witness ==
    /\ pc = "ReconstructionFailed"
    /\ NumShares = MaxN
    /\ IndexTuples(NumShares, k) # {}

====
